---- MODULE Spec2Model ----
(***************************************************************************)
(* A model of awkward.array.union.UnionArray (src/awkward/array/union.py). *)
(*                                                                         *)
(* One UnionArray instance `self` is the state: its private fields _tags,  *)
(* _index, _contents, _dtype and _isvalid.  `call` records the last method *)
(* invoked on it with its arguments and `ret` what that call returned or   *)
(* raised.  Arrays are one-dimensional; an ndarray is a record             *)
(* [dtype, data] whose data is a sequence (position k of numpy is k+1      *)
(* here), a branch of contents is a record [kind, dtype, data, cols].      *)
(***************************************************************************)
EXTENDS Integers, Sequences, FiniteSets, TLC

VARIABLES _tags, _index, _contents, _dtype, _isvalid, call, ret

vars == <<_tags, _index, _contents, _dtype, _isvalid, call, ret>>

(***************************************************************************)
(* Bounds of the model.                                                    *)
(***************************************************************************)
\* longest tags sequence drawn as an input
MaxLen == 3

(***************************************************************************)
(* Class attributes inherited from awkward.array.base.AwkwardArray.        *)
(***************************************************************************)
check_prop_valid == TRUE
check_whole_valid == TRUE
TAGTYPE == "uint8"
INDEXTYPE == "int64"
DEFAULTTYPE == "float64"

(***************************************************************************)
(* numpy primitives the methods are written with.                          *)
(***************************************************************************)
None == [kind |-> "None"]
Raise(exc) == [kind |-> "raise", exc |-> exc]
Raised(r) == r.kind = "raise"

ndarray(dtype, data) == [dtype |-> dtype, data |-> data]

SeqsUpTo(S, n) == UNION {[1..k -> S] : k \in 0..n}

Range(s) == {s[k] : k \in DOMAIN s}

SetMax(S) == CHOOSE m \in S : \A x \in S : x <= m

SetMin(S) == CHOOSE m \in S : \A x \in S : m <= x

\* value.max(): numpy raises ValueError on a zero-size array
ArrayMax(data) == SetMax(Range(data))

\* numpy.iinfo(dtype).max for the unsigned types, by width in bits
Bits(dtype) ==
    CASE dtype = "uint8" -> 8
      [] dtype = "uint16" -> 16
      [] dtype = "uint32" -> 32
      [] dtype = "uint64" -> 64

\* x <= numpy.iinfo(dtype).max; every integer of the model is below 2^31
FitsIn(x, dtype) == Bits(dtype) > 30 \/ x <= 2^Bits(dtype) - 1

\* value.astype(dtype) for an unsigned dtype: two's-complement wrap-around
astype(data, dtype) ==
    [k \in DOMAIN data |->
        IF Bits(dtype) > 30 /\ data[k] >= 0 THEN data[k] ELSE data[k] % 2^Bits(dtype)]

\* numpy.arange(n)
arange(n) == [k \in 1..n |-> k - 1]

\* the positions selected by the boolean mask (a == value), ascending
RECURSIVE MaskFrom(_, _, _)
MaskFrom(data, value, k) ==
    IF k > Len(data) THEN << >>
    ELSE IF data[k] = value THEN <<k>> \o MaskFrom(data, value, k + 1)
    ELSE MaskFrom(data, value, k + 1)

Mask(data, value) == MaskFrom(data, value, 1)

\* a[positions]: gathering, in the order of the positions
Take(data, positions) == [k \in DOMAIN positions |-> data[positions[k]]]

\* numpy.unique(a): the distinct values, ascending
RECURSIVE SortedSeq(_)
SortedSeq(S) ==
    IF S = {} THEN << >> ELSE <<SetMin(S)>> \o SortedSeq(S \ {SetMin(S)})

unique(data) == SortedSeq(Range(data))

\* a[:n]
Prefix(data, n) == SubSeq(data, 1, IF n < Len(data) THEN n ELSE Len(data))

\* len(branch): the items of a flat buffer, the rows of a Table
BranchLen(b) == Len(b.data)

(***************************************************************************)
(* Helpers of the base class (awkward.array.base, awkward.util).           *)
(***************************************************************************)
\* a Python list of integers becomes an int64 ndarray (an empty one takes the
\* default dtype); an ndarray passes through
_util_toarray(value, defaultdtype) ==
    IF value.dtype = "list"
    THEN ndarray(IF Len(value.data) = 0 THEN defaultdtype ELSE "int64", value.data)
    ELSE value

_util_isintegertype(dtype) ==
    dtype \in {"int8", "int16", "int32", "int64", "uint8", "uint16", "uint32", "uint64"}

(***************************************************************************)
(* The property setters.  Each returns Raise(exc), and then assigns        *)
(* nothing, or [kind |-> "ok", value |-> the array it stores].             *)
(***************************************************************************)
Ok(value) == [kind |-> "ok", value |-> value]

\* lines 98-110: the cast chosen from the maximum tag
tags_cast(value) ==
    LET tagsmax == ArrayMax(value.data) IN
    IF FitsIn(tagsmax, TAGTYPE) THEN Ok(ndarray(TAGTYPE, astype(value.data, TAGTYPE)))
    ELSE IF FitsIn(tagsmax, "uint8") THEN Ok(ndarray("uint8", astype(value.data, "uint8")))
    ELSE IF FitsIn(tagsmax, "uint16") THEN Ok(ndarray("uint16", astype(value.data, "uint16")))
    ELSE IF FitsIn(tagsmax, "uint32") THEN Ok(ndarray("uint32", astype(value.data, "uint32")))
    ELSE IF FitsIn(tagsmax, "uint64") THEN Ok(ndarray("uint64", astype(value.data, "uint64")))
    ELSE Raise("ValueError")

tags_setter(value0) ==
    LET value1 == _util_toarray(value0, TAGTYPE) IN
    IF Len(value1.data) = 0 THEN Raise("ValueError")      \* value.max() of nothing
    ELSE LET cast == tags_cast(value1) IN
         IF Raised(cast) THEN cast
         ELSE LET value == cast.value IN
              IF check_prop_valid /\ Len(value.data) = 0 THEN Raise("ValueError")
              ELSE IF check_prop_valid /\ ~_util_isintegertype(value.dtype)
                   THEN Raise("TypeError")
              ELSE IF check_prop_valid /\ \E k \in DOMAIN value.data : value.data[k] < 0
                   THEN Raise("ValueError")
              ELSE Ok(value)

index_setter(value0) ==
    LET value == _util_toarray(value0, INDEXTYPE) IN
    IF check_prop_valid /\ ~_util_isintegertype(value.dtype) THEN Raise("TypeError")
    ELSE IF check_prop_valid /\ \E k \in DOMAIN value.data : value.data[k] < 0
         THEN Raise("ValueError")
    ELSE Ok(value)

\* value is a list of branches, each already an array (toarray passes it through)
contents_setter(value0) ==
    LET value == [t \in DOMAIN value0 |-> value0[t]] IN
    IF check_prop_valid /\ Len(value) = 0 THEN Raise("ValueError")
    ELSE Ok(value)

(***************************************************************************)
(* A UnionArray as a value: the five private fields.                       *)
(***************************************************************************)
UnionArray(tags, index, contents, dtype, isvalid) ==
    [kind |-> "UnionArray", tags |-> tags, index |-> index, contents |-> contents,
     dtype |-> dtype, isvalid |-> isvalid]

self == UnionArray(_tags, _index, _contents, _dtype, _isvalid)

\* __init__: the three setters in turn; the first that raises ends it
__init__(tags, index, contents) ==
    LET t == tags_setter(tags)
        i == index_setter(index)
        c == contents_setter(contents)
    IN  IF Raised(t) THEN t
        ELSE IF Raised(i) THEN i
        ELSE IF Raised(c) THEN c
        ELSE UnionArray(t.value, i.value, c.value, "None", FALSE)

(***************************************************************************)
(* _valid: the structural checks I1-I3, memoized in _isvalid.              *)
(***************************************************************************)
\* len(a.shape) and a.shape[1:] of the one-dimensional arrays of the model
ndim(a) == 1
shape_tail(a) == << >>

\* index[mask] with a boolean mask: numpy raises IndexError unless the mask is
\* as long as the indexed array
BoolIndex(data, maskdata, value) ==
    IF Len(data) # Len(maskdata) THEN Raise("IndexError")
    ELSE Ok(Take(data, Mask(maskdata, value)))

\* lines 252-255: the loop over the distinct tags, from the k-th on
RECURSIVE valid_loop(_, _, _, _, _)
valid_loop(uniq, k, tags, index, contents) ==
    IF k > Len(uniq) THEN None
    ELSE LET tag == uniq[k]
             sel == BoolIndex(index, tags.data, tag)
         IN  IF Raised(sel) THEN sel
             ELSE IF ArrayMax(sel.value) >= BranchLen(contents[tag + 1])
                  THEN Raise("ValueError")
             ELSE valid_loop(uniq, k + 1, tags, index, contents)

\* what _valid does when it runs the checks: None, or the exception raised
valid_checks(tags, index, contents) ==
    IF ndim(tags) > ndim(index) THEN Raise("ValueError")
    ELSE IF shape_tail(tags) # shape_tail(index) THEN Raise("ValueError")
    ELSE IF Len(tags.data) > 0 /\ ArrayMax(tags.data) >= Len(contents)
         THEN Raise("ValueError")
    ELSE valid_loop(unique(tags.data), 1, tags,
                    Prefix(index.data, Len(tags.data)), contents)

\* _valid on the array u: [ret, isvalid], the outcome and the flag afterwards
_valid(u) ==
    IF check_whole_valid /\ ~u.isvalid
    THEN LET r == valid_checks(u.tags, u.index, u.contents) IN
         [ret |-> r, isvalid |-> ~Raised(r)]
    ELSE [ret |-> None, isvalid |-> u.isvalid]

(***************************************************************************)
(* The invariants I1-I3 as the specification states them.                  *)
(***************************************************************************)
I1(u) == Len(u.tags.data) <= Len(u.index.data)
I2(u) == \A k \in DOMAIN u.tags.data : u.tags.data[k] < Len(u.contents)
I3(u) ==
    \A k \in DOMAIN u.tags.data :
        k <= Len(u.index.data) => u.index.data[k] < BranchLen(u.contents[u.tags.data[k] + 1])
Structural(u) == I1(u) /\ I2(u) /\ I3(u)

(***************************************************************************)
(* fromtags: the sequential factory.                                       *)
(***************************************************************************)
\* line 31 with arange(len(tags))[mask] in place of arange(count_nonzero(mask))
fromtags_fill_positions(index, tagsdata, tag) ==
    [k \in DOMAIN index |-> IF tagsdata[k] = tag THEN k - 1 ELSE index[k]]

\* line 31: index[mask] = arange(count_nonzero(mask)), mask = (tags == tag)
fromtags_fill(index, tagsdata, tag) ==
    LET mask == Mask(tagsdata, tag)
        values == arange(Len(mask))
    IN  [k \in DOMAIN index |->
            IF \E r \in DOMAIN mask : mask[r] = k
            THEN values[CHOOSE r \in DOMAIN mask : mask[r] = k]
            ELSE index[k]]

\* lines 29-31: for tag, content in enumerate(contents), from tag on
RECURSIVE fromtags_loop(_, _, _, _)
fromtags_loop(index, tagsdata, tag, ncontents) ==
    IF tag >= ncontents THEN index
    ELSE fromtags_loop(fromtags_fill(index, tagsdata, tag), tagsdata, tag + 1, ncontents)

fromtags(tags, contents) ==
    LET t == tags_setter(tags)
        c == contents_setter(contents)
    IN  IF Raised(t) THEN t
        ELSE IF Raised(c) THEN c
        ELSE IF Len(t.value.data) > 0 /\ ArrayMax(t.value.data) >= Len(c.value)
             THEN Raise("ValueError")
        ELSE LET full == [k \in DOMAIN t.value.data |-> -1]
                 index == fromtags_loop(full, t.value.data, 0, Len(c.value))
                 i == index_setter(ndarray(INDEXTYPE, index))
             IN  IF Raised(i) THEN i
                 ELSE UnionArray(t.value, i.value, c.value, "None", FALSE)

\* copy assigning the overrides to the fields directly, past the setters: the
\* flag and the cached type of self stay
copy_fields(u, kw) ==
    LET t == IF "tags" \in DOMAIN kw THEN tags_setter(kw.tags) ELSE Ok(u.tags)
        i == IF "index" \in DOMAIN kw THEN index_setter(kw.index) ELSE Ok(u.index)
        c == IF "contents" \in DOMAIN kw THEN contents_setter(kw.contents)
             ELSE Ok(u.contents)
    IN  IF Raised(t) THEN t
        ELSE IF Raised(i) THEN i
        ELSE IF Raised(c) THEN c
        ELSE UnionArray(t.value, i.value, c.value, u.dtype, u.isvalid)

(***************************************************************************)
(* copy: a shallow copy, then the setters of the overrides given.  kw is   *)
(* the record of the keyword arguments that are not None.                  *)
(***************************************************************************)
copy(u, kw) ==
    LET t == IF "tags" \in DOMAIN kw THEN tags_setter(kw.tags) ELSE Ok(u.tags)
        i == IF "index" \in DOMAIN kw THEN index_setter(kw.index) ELSE Ok(u.index)
        c == IF "contents" \in DOMAIN kw THEN contents_setter(kw.contents)
             ELSE Ok(u.contents)
    IN  IF Raised(t) THEN t
        ELSE IF Raised(i) THEN i
        ELSE IF Raised(c) THEN c
        ELSE UnionArray(t.value, i.value, c.value,
                        IF "contents" \in DOMAIN kw THEN "None" ELSE u.dtype,
                        IF DOMAIN kw = {} THEN u.isvalid ELSE FALSE)

\* self._util_deepcopy(x): a buffer of its own with the items of x
_util_deepcopy(x) == x

\* lines 53-55 on the copy out
deepcopy_fields(out) ==
    IF Raised(out) THEN out
    ELSE [out EXCEPT !.tags = _util_deepcopy(out.tags),
                     !.index = _util_deepcopy(out.index),
                     !.contents = [t \in DOMAIN out.contents |->
                                      _util_deepcopy(out.contents[t])]]

\* lines 51-56
deepcopy(u, kw) == deepcopy_fields(copy(u, kw))

(***************************************************************************)
(* issequential.                                                           *)
(***************************************************************************)
\* lines 70-74: the loop over the distinct tags, from the k-th on; the mask
\* is applied to the whole of _index
RECURSIVE issequential_loop(_, _, _)
issequential_loop(uniq, k, u) ==
    IF k > Len(uniq) THEN [kind |-> "bool", value |-> TRUE]
    ELSE LET sel == BoolIndex(u.index.data, u.tags.data, uniq[k]) IN
         IF Raised(sel) THEN sel
         ELSE IF sel.value # arange(Len(sel.value))
              THEN [kind |-> "bool", value |-> FALSE]
         ELSE issequential_loop(uniq, k + 1, u)

\* [ret, isvalid]: what the property returns or raises, and the flag afterwards
issequential(u) ==
    LET v == _valid(u) IN
    IF Raised(v.ret) THEN v
    ELSE [ret |-> issequential_loop(unique(u.tags.data), 1, u), isvalid |-> v.isvalid]

(***************************************************************************)
(* __iter__ and the element at a logical position.                         *)
(***************************************************************************)
\* contents[tags[i]][index[i]] at the (1-based) position k
element(u, k) == u.contents[u.tags.data[k] + 1].data[u.index.data[k] + 1]

__iter__(u) ==
    LET v == _valid(u) IN
    IF Raised(v.ret) THEN v
    ELSE [ret |-> [kind |-> "items",
                   value |-> [k \in DOMAIN u.tags.data |-> element(u, k)]],
          isvalid |-> v.isvalid]

(***************************************************************************)
(* __awkward_persist__ and the replay of what it emits.                    *)
(***************************************************************************)
\* the caller's fill stores an array and hands back what reads it again
fill(x) == x

__awkward_persist__(u) ==
    LET v == _valid(u) IN
    IF Raised(v.ret) THEN v
    ELSE LET s == issequential([u EXCEPT !.isvalid = v.isvalid]) IN
         IF Raised(s.ret) THEN s
         ELSE IF s.ret.value
              THEN [ret |-> [kind |-> "persist",
                             call |-> <<"awkward", "UnionArray", "fromtags">>,
                             args |-> <<fill(u.tags), [t \in DOMAIN u.contents |-> fill(u.contents[t])]>>],
                    isvalid |-> s.isvalid]
              ELSE [ret |-> [kind |-> "persist",
                             call |-> <<"awkward", "UnionArray">>,
                             args |-> <<fill(u.tags), fill(u.index),
                                        [t \in DOMAIN u.contents |-> fill(u.contents[t])]>>],
                    isvalid |-> s.isvalid]

\* the deserializer: call the named constructor on the emitted arguments
replay(p) ==
    IF p.call = <<"awkward", "UnionArray", "fromtags">>
    THEN fromtags(p.args[1], p.args[2])
    ELSE __init__(p.args[1], p.args[2], p.args[3])

(***************************************************************************)
(* __getitem__ with a positional selector on the one dimension of tags.    *)
(* where is [kind |-> "int", i], [kind |-> "slice", start, stop, step],    *)
(* [kind |-> "mask", mask] or [kind |-> "list", items].                    *)
(***************************************************************************)
Min(a, b) == IF a < b THEN a ELSE b
Max(a, b) == IF a > b THEN a ELSE b

\* slice.indices(n) for a positive step
SliceBound(x, n) == IF x < 0 THEN Max(x + n, 0) ELSE Min(x, n)

RECURSIVE SliceFrom(_, _, _)
SliceFrom(start, stop, step) ==
    IF start >= stop THEN << >> ELSE <<start + 1>> \o SliceFrom(start + step, stop, step)

\* the 1-based positions a[where] selects from an array of n items, in the
\* order selected; IndexError for an integer out of range or a mask of
\* another length
Positions(where, n) ==
    CASE where.kind = "int" ->
            IF where.i < -n \/ where.i >= n THEN Raise("IndexError")
            ELSE Ok(<<(where.i % n) + 1>>)
      [] where.kind = "slice" ->
            Ok(SliceFrom(SliceBound(where.start, n), SliceBound(where.stop, n), where.step))
      [] where.kind = "mask" ->
            IF Len(where.mask) # n THEN Raise("IndexError")
            ELSE Ok(Mask(where.mask, TRUE))
      [] where.kind = "list" ->
            IF \E k \in DOMAIN where.items : where.items[k] < -n \/ where.items[k] >= n
            THEN Raise("IndexError")
            ELSE Ok([k \in DOMAIN where.items |-> (where.items[k] % n) + 1])

\* branch[(index,)]: the items of a branch at the given (0-based) places;
\* numpy raises IndexError for a place beyond the branch
BranchTake(b, index) ==
    IF \E k \in DOMAIN index : index[k] >= Len(b.data) THEN Raise("IndexError")
    ELSE [kind |-> b.kind, dtype |-> b.dtype,
          data |-> [k \in DOMAIN index |-> b.data[index[k] + 1]],
          cols |-> [f \in DOMAIN b.cols |-> [k \in DOMAIN index |-> b.cols[f][index[k] + 1]]]]

\* branch[index] for one place: the item itself
BranchItem(b, i) ==
    IF i >= Len(b.data) THEN Raise("IndexError")
    ELSE [kind |-> "scalar", value |-> b.data[i + 1]]

\* lines 287-304 with _index[head] in place of _index[:len(_tags)][head]
getitem_positional_wholeindex(u, where) ==
    LET n == Len(u.tags.data)
        head == Positions(where, n)
        ihead == Positions(where, Len(u.index.data))
    IN  IF Raised(head) THEN head
        ELSE IF Raised(ihead) THEN ihead
        ELSE LET tags == Take(u.tags.data, head.value)
                 index == Take(u.index.data, ihead.value)
             IN  IF where.kind = "int" THEN BranchItem(u.contents[tags[1] + 1], index[1])
                 ELSE IF Len(tags) = 0 THEN BranchTake(u.contents[1], index)
                 ELSE IF \A k \in DOMAIN tags : tags[k] = tags[1]
                      THEN BranchTake(u.contents[tags[1] + 1], index)
                 ELSE copy(u, [tags |-> ndarray(u.tags.dtype, tags),
                               index |-> ndarray(u.index.dtype, index)])

\* lines 287-304, after _valid
getitem_positional(u, where) ==
    LET n == Len(u.tags.data)
        head == Positions(where, n)
    IN  IF Raised(head) THEN head
        ELSE LET tags == Take(u.tags.data, head.value)
                 index == Take(Prefix(u.index.data, n), head.value)
             IN  IF where.kind = "int" THEN BranchItem(u.contents[tags[1] + 1], index[1])
                 ELSE IF Len(tags) = 0 THEN BranchTake(u.contents[1], index)
                 ELSE IF \A k \in DOMAIN tags : tags[k] = tags[1]
                      THEN BranchTake(u.contents[tags[1] + 1], index)
                 ELSE copy(u, [tags |-> ndarray(u.tags.dtype, tags),
                               index |-> ndarray(u.index.dtype, index)])

\* Table[name]: the column as a flat buffer; ValueError when there is none
TableColumn(b, name) ==
    IF name \in DOMAIN b.cols
    THEN [kind |-> "ndarray", dtype |-> "int64", data |-> b.cols[name], cols |-> << >>]
    ELSE Raise("ValueError")

\* lines 278-280: contents.append(self._contents[tag][where]) for the k-th
\* distinct tag and those after it
RECURSIVE getitem_field_loop(_, _, _, _, _)
getitem_field_loop(uniq, k, u, name, contents) ==
    IF k > Len(uniq) THEN Ok(contents)
    ELSE LET column == TableColumn(u.contents[uniq[k] + 1], name) IN
         IF Raised(column) THEN column
         ELSE getitem_field_loop(uniq, k + 1, u, name, Append(contents, column))

\* lines 277-285, after _valid
getitem_field(u, name) ==
    LET contents == getitem_field_loop(unique(u.tags.data), 1, u, name, << >>) IN
    IF Raised(contents) THEN contents
    ELSE IF Len(contents.value) = 0
         THEN LET column == TableColumn(u.contents[1], name) IN
              IF Raised(column) THEN column ELSE copy(u, [contents |-> <<column>>])
    ELSE copy(u, [contents |-> contents.value])

\* [ret, isvalid]; where is [kind |-> "str", name] for a field name
__getitem__(u, where) ==
    LET v == _valid(u) IN
    IF Raised(v.ret) THEN v
    ELSE IF where.kind = "str"
         THEN [ret |-> getitem_field([u EXCEPT !.isvalid = v.isvalid], where.name),
               isvalid |-> v.isvalid]
    ELSE [ret |-> getitem_positional([u EXCEPT !.isvalid = v.isvalid], where),
          isvalid |-> v.isvalid]

(***************************************************************************)
(* __setitem__ with a field name.                                          *)
(***************************************************************************)
\* IndexedArray.invert(permutation): out = zeros(max + 1); out[permutation] =
\* arange(len(permutation)), the last write to a place staying
invert(permutation) ==
    [j \in 1..(ArrayMax(permutation) + 1) |->
        IF \E k \in DOMAIN permutation : permutation[k] = j - 1
        THEN SetMax({k \in DOMAIN permutation : permutation[k] = j - 1}) - 1
        ELSE 0]

\* IndexedArray(index, content): item j is content[index[j]]
IndexedArray(index, content) == [j \in DOMAIN index |-> content[index[j] + 1]]

\* Table[name] = column
TableAssign(b, name, column) ==
    [b EXCEPT !.cols = [f \in DOMAIN b.cols \cup {name} |->
                           IF f = name THEN column ELSE b.cols[f]]]

\* lines 311-313: the loop over the distinct tags, from the k-th on; the
\* branches written before an exception stay written
RECURSIVE setitem_loop(_, _, _, _, _, _)
setitem_loop(uniq, k, u, name, what, contents) ==
    IF k > Len(uniq) THEN [ret |-> None, contents |-> contents]
    ELSE LET tag == uniq[k]
             sel == BoolIndex(Prefix(u.index.data, Len(u.tags.data)), u.tags.data, tag)
         IN  IF Raised(sel) THEN [ret |-> sel, contents |-> contents]
             ELSE IF tag >= Len(contents)
                  THEN [ret |-> Raise("IndexError"), contents |-> contents]
             ELSE setitem_loop(uniq, k + 1, u, name, what,
                     [contents EXCEPT ![tag + 1] =
                         TableAssign(contents[tag + 1], name,
                                     IndexedArray(invert(sel.value), what.data))])

\* [ret, contents]: None or the exception, and the branches afterwards
__setitem__(u, where, what) ==
    IF Len(what.data) # Len(u.tags.data)
    THEN [ret |-> Raise("ValueError"), contents |-> u.contents]
    ELSE IF where.kind = "str"
         THEN setitem_loop(unique(u.tags.data), 1, u, where.name, what, u.contents)
    ELSE [ret |-> Raise("TypeError"), contents |-> u.contents]

(***************************************************************************)
(* uniondtype and the dtype property.                                      *)
(***************************************************************************)
\* the subclasses of numpy.integer, numpy.floating and numpy.complexfloating
integer == {"int8", "int16", "int32", "int64", "uint8", "uint16", "uint32", "uint64"}
floating == {"float16", "float32", "float64", "float128"}
complexfloating == {"complex64", "complex128", "complex256"}

\* hasattr(numpy, "float128") and hasattr(numpy, "complex256"): a numpy with
\* the extended precision types, as on x86-64 Linux
has_float128 == TRUE
has_complex256 == TRUE

\* all(issubclass(x.dtype.type, classes) for x in arrays)
allsub(arrays, classes) == \A k \in DOMAIN arrays : arrays[k].dtype \in classes

uniondtype(arrays) ==
    IF allsub(arrays, {"bool"}) THEN "bool"
    ELSE IF allsub(arrays, {"int8"}) THEN "int8"
    ELSE IF allsub(arrays, {"uint8"}) THEN "uint8"
    ELSE IF allsub(arrays, {"int8", "uint8", "int16"}) THEN "int16"
    ELSE IF allsub(arrays, {"uint8", "uint16"}) THEN "uint16"
    ELSE IF allsub(arrays, {"int8", "uint8", "int16", "uint16", "int32"}) THEN "int32"
    ELSE IF allsub(arrays, {"uint8", "uint16", "uint32"}) THEN "uint32"
    ELSE IF allsub(arrays, {"int8", "uint8", "int16", "uint16", "int32", "uint32", "int64"})
         THEN "int64"
    ELSE IF allsub(arrays, {"uint8", "uint16", "uint32", "uint64"}) THEN "uint64"
    ELSE IF allsub(arrays, {"float16"}) THEN "float16"
    ELSE IF allsub(arrays, {"float16", "float32"}) THEN "float32"
    ELSE IF allsub(arrays, {"float16", "float32", "float64"}) THEN "float64"
    ELSE IF has_float128 /\ allsub(arrays, {"float16", "float32", "float64", "float128"})
         THEN "float128"
    ELSE IF allsub(arrays, integer \cup floating) THEN "float64"
    ELSE IF allsub(arrays, {"complex64"}) THEN "complex64"
    ELSE IF allsub(arrays, {"complex64", "complex128"}) THEN "complex128"
    ELSE IF has_complex256 /\ allsub(arrays, {"complex64", "complex128", "complex256"})
         THEN "complex256"
    ELSE IF allsub(arrays, integer \cup floating \cup complexfloating) THEN "complex128"
    ELSE "object"

\* the dtype property: [ret, dtype], the value returned and the cache afterwards
dtype(u) ==
    LET d == IF u.dtype = "None" THEN uniondtype(u.contents) ELSE u.dtype IN
    [ret |-> [kind |-> "dtype", value |-> d], dtype |-> d]

(***************************************************************************)
(* __array_ufunc__ for numpy.add called on two UnionArrays (method         *)
(* "__call__", no out).                                                    *)
(***************************************************************************)
\* numpy.add on two flat buffers of one length
add(a, b) ==
    [kind |-> "ndarray",
     dtype |-> IF "float64" \in {a.dtype, b.dtype} THEN "float64" ELSE "int64",
     data |-> [k \in DOMAIN a.data |-> a.data[k] + b.data[k]], cols |-> << >>]

\* line 356: combos, the pair of tags at each position
combos(A, B) == [k \in DOMAIN A.tags.data |-> <<A.tags.data[k], B.tags.data[k]>>]

\* numpy.unique on the structured array: the distinct pairs, ascending by
\* field "0" and then by field "1"
PairLess(p, q) == p[1] < q[1] \/ (p[1] = q[1] /\ p[2] < q[2])

RECURSIVE SortedPairs(_)
SortedPairs(S) ==
    IF S = {} THEN << >>
    ELSE LET m == CHOOSE p \in S : \A q \in S \ {p} : PairLess(p, q) IN
         <<m>> \o SortedPairs(S \ {m})

\* lines 366-367 assigning places instead of arange(count_nonzero(mask))
ufunc_assign_positions(out, mask, outtag) ==
    [tags |-> [k \in DOMAIN out.tags |->
                   IF \E r \in DOMAIN mask : mask[r] = k THEN outtag ELSE out.tags[k]],
     index |-> [k \in DOMAIN out.index |->
                   IF \E r \in DOMAIN mask : mask[r] = k THEN k - 1 ELSE out.index[k]]]

\* lines 366-367: outtags[mask] = outtag; outindex[mask] = arange(count_nonzero(mask))
ufunc_assign(out, mask, outtag) ==
    [tags |-> [k \in DOMAIN out.tags |->
                   IF \E r \in DOMAIN mask : mask[r] = k THEN outtag ELSE out.tags[k]],
     index |-> [k \in DOMAIN out.index |->
                   IF \E r \in DOMAIN mask : mask[r] = k
                   THEN arange(Len(mask))[CHOOSE r \in DOMAIN mask : mask[r] = k]
                   ELSE out.index[k]]]

\* line 369: getattr(ufunc, method)(*[x[mask] ...]) on the masked inputs, the
\* first exception of an x[mask] propagating
ufunc_result(masked) ==
    IF Raised(masked[1]) THEN masked[1]
    ELSE IF Raised(masked[2]) THEN masked[2]
    ELSE add(masked[1], masked[2])

\* lines 364-389: for outtag, combo in enumerate(unique(combos)), from the
\* k-th group on; out carries outtags and outindex, contents the results so far
RECURSIVE ufunc_loop(_, _, _, _, _, _, _)
\* lines 385-388: contents[None].append(result), and on to the next group
ufunc_append(uniq, k, A, B, cmb, out, contents, result) ==
    IF Raised(result) THEN result
    ELSE ufunc_loop(uniq, k + 1, A, B, cmb, out, Append(contents, result))

ufunc_loop(uniq, k, A, B, cmb, out, contents) ==
    IF k > Len(uniq) THEN [kind |-> "ok", out |-> out, contents |-> contents]
    ELSE ufunc_append(uniq, k, A, B, cmb,
             ufunc_assign(out, Mask(cmb, uniq[k]), k - 1), contents,
             ufunc_result([x \in 1..2 |->
                 __getitem__(IF x = 1 THEN A ELSE B,
                             [kind |-> "mask",
                              mask |-> [p \in DOMAIN cmb |-> cmb[p] = uniq[k]]]).ret]))

\* [ret, isvalid]: the result or the exception, and the flag of self afterwards.
\* numpy.empty leaves outtags and outindex unset; the loop writes every place.
__array_ufunc__(A, B) ==
    LET \* lines 347-350: x._valid() for each input x
        valid == [x \in 1..2 |-> _valid(IF x = 1 THEN A ELSE B)]
        va == valid[1]
        vb == valid[2]
    IN  IF Raised(va.ret) THEN va
        ELSE IF Raised(vb.ret) THEN [ret |-> vb.ret, isvalid |-> va.isvalid]
        ELSE IF Len(A.tags.data) # Len(B.tags.data)
             THEN [ret |-> Raise("ValueError"), isvalid |-> va.isvalid]
        ELSE LET A1 == [A EXCEPT !.isvalid = va.isvalid]
                 B1 == [B EXCEPT !.isvalid = vb.isvalid]
                 cmb == combos(A, B)
                 empty == [tags |-> [k \in DOMAIN A.tags.data |-> 0],
                           index |-> [k \in DOMAIN A.tags.data |-> 0]]
                 r == ufunc_loop(SortedPairs(Range(cmb)), 1, A1, B1, cmb, empty, << >>)
             IN  IF Raised(r) THEN [ret |-> r, isvalid |-> va.isvalid]
                 ELSE [ret |-> __init__(ndarray(TAGTYPE, r.out.tags),
                                        ndarray(INDEXTYPE, r.out.index), r.contents),
                       isvalid |-> va.isvalid]

(***************************************************************************)
(* Inputs.                                                                 *)
(***************************************************************************)
list(data) == [dtype |-> "list", data |-> data]

TagValues == {0, 1}
IndexValues == {0, 1}

\* branch number tag with n items: a flat buffer of recognisable values
Branch(tag, n) ==
    [kind |-> "ndarray", dtype |-> IF tag = 0 THEN "int64" ELSE "float64",
     data |-> [j \in 1..n |-> 10 * (tag + 1) + j - 1], cols |-> << >>]

\* what a caller may hand the tags setter: lists of at most n in-range tags,
\* and lists with a negative or a wide tag
TagsUpTo(n) ==
    {list(d) : d \in SeqsUpTo(TagValues, n)}
        \cup {list(<<-1, 0>>), list(<<-1>>), list(<<0, 300>>), list(<<300, -1>>)}

\* what a caller may hand the index setter: lists of m..n in-range places,
\* a list with a negative place and a float array
IndexFromTo(m, n) ==
    {list(d) : d \in SeqsUpTo(IndexValues, n) \ SeqsUpTo(IndexValues, m - 1)}
        \cup {list(<<-1, 0>>), ndarray("float64", <<0, 1>>)}

\* lists of at most one branch per tag value, each of 1 or 2 items
ContentsInputs ==
    {[t \in 1..Len(lens) |-> Branch(t - 1, lens[t])] :
        lens \in SeqsUpTo({n + 1 : n \in IndexValues}, Cardinality(TagValues))}

\* the inputs of the setters of Spec
TagsInputs == TagsUpTo(MaxLen - 1)
IndexInputs == IndexFromTo(0, MaxLen - 1)

\* the selectors tried on an array of n items
WhereInputs(n) ==
    {[kind |-> "int", i |-> i] : i \in (-n - 1)..n}
        \cup {[kind |-> "slice", start |-> a, stop |-> b, step |-> c] :
                a \in -1..(n - 1), b \in 0..(n + 1), c \in {1, 2}}
        \cup {[kind |-> "mask", mask |-> m] : m \in [1..n -> BOOLEAN]}
        \cup {[kind |-> "list", items |-> l] : l \in SeqsUpTo(-1..(n - 1), 2)}

(***************************************************************************)
(* The state machine.  Init is the array after construction, by __init__   *)
(* or by fromtags; a constructor that raises leaves no array behind.       *)
(***************************************************************************)
Constructed(u) ==
    /\ u.kind = "UnionArray"
    /\ _tags = u.tags
    /\ _index = u.index
    /\ _contents = u.contents
    /\ _dtype = u.dtype
    /\ _isvalid = u.isvalid

ByInit(tags, index, contents) ==
    /\ Constructed(__init__(tags, index, contents))
    /\ call = [op |-> "__init__", args |-> <<tags, index, contents>>]
    /\ ret = None

ByFromtags(tags, contents) ==
    /\ Constructed(fromtags(tags, contents))
    /\ call = [op |-> "fromtags", args |-> <<tags, contents>>]
    /\ ret = None

Init ==
    \E tags \in TagsInputs, index \in IndexInputs, contents \in ContentsInputs :
        ByInit(tags, index, contents)

SetTags ==
    \E value \in TagsInputs :
        LET r == tags_setter(value) IN
        /\ call' = [op |-> "tags.setter", args |-> <<value>>]
        /\ IF Raised(r)
           THEN ret' = r /\ UNCHANGED <<_tags, _isvalid>>
           ELSE ret' = None /\ _tags' = r.value /\ _isvalid' = FALSE
        /\ UNCHANGED <<_index, _contents, _dtype>>

SetIndex ==
    \E value \in IndexInputs :
        LET r == index_setter(value) IN
        /\ call' = [op |-> "index.setter", args |-> <<value>>]
        /\ IF Raised(r)
           THEN ret' = r /\ UNCHANGED <<_index, _isvalid>>
           ELSE ret' = None /\ _index' = r.value /\ _isvalid' = FALSE
        /\ UNCHANGED <<_tags, _contents, _dtype>>

SetContents ==
    \E value \in ContentsInputs :
        LET r == contents_setter(value) IN
        /\ call' = [op |-> "contents.setter", args |-> <<value>>]
        /\ IF Raised(r)
           THEN ret' = r /\ UNCHANGED <<_contents, _dtype, _isvalid>>
           ELSE ret' = None /\ _contents' = r.value /\ _dtype' = "None" /\ _isvalid' = FALSE
        /\ UNCHANGED <<_tags, _index>>

Valid ==
    LET v == _valid(self) IN
    /\ call' = [op |-> "_valid", args |-> << >>]
    /\ ret' = v.ret
    /\ _isvalid' = v.isvalid
    /\ UNCHANGED <<_tags, _index, _contents, _dtype>>

Next == SetTags \/ SetIndex \/ SetContents \/ Valid

Spec == Init /\ [][Next]_vars

(***************************************************************************)
(* The reads.  Each behaviour of SpecRead constructs an array, may         *)
(* validate it, and reads it once: a read changes nothing but the          *)
(* memoized _isvalid, so a second read would see the same array.           *)
(***************************************************************************)
Unread == call.op \in {"__init__", "fromtags", "_valid"}

\* a read: v is [ret, isvalid]
Read(op, args, v) ==
    /\ call' = [op |-> op, args |-> args]
    /\ ret' = v.ret
    /\ _isvalid' = v.isvalid
    /\ UNCHANGED <<_tags, _index, _contents, _dtype>>

ValidOnce == call.op \in {"__init__", "fromtags"} /\ Valid

Iter == Unread /\ Read("__iter__", << >>, __iter__(self))

IsSequential == Unread /\ Read("issequential", << >>, issequential(self))

Persist == Unread /\ Read("__awkward_persist__", << >>, __awkward_persist__(self))

GetItem ==
    /\ Unread
    /\ \E where \in WhereInputs(Len(_tags.data)) :
          Read("__getitem__", <<where>>, __getitem__(self, where))

\* arrays of up to MaxLen tags, the index at most one shorter or longer
InitRead ==
    \E tags \in TagsUpTo(MaxLen), contents \in ContentsInputs :
        \/ \E index \in IndexFromTo(Len(tags.data) - 1, Len(tags.data) + 1) :
              ByInit(tags, index, contents)
        \/ ByFromtags(tags, contents)

NextRead == ValidOnce \/ Iter \/ IsSequential \/ Persist \/ GetItem

SpecRead == InitRead /\ [][NextRead]_vars

(***************************************************************************)
(* The sequential factory called on fresh inputs: self is rebound to the   *)
(* array it returns, and stays what it was when the factory raises.  Each  *)
(* behaviour of SpecFromtags calls the factory once.                       *)
(***************************************************************************)
FromTags ==
    /\ call.op = "__init__"
    /\ \E tags \in TagsUpTo(MaxLen + 1), contents \in ContentsInputs :
          LET out == fromtags(tags, contents) IN
          /\ call' = [op |-> "fromtags", args |-> <<tags, contents>>]
          /\ IF Raised(out)
             THEN ret' = out /\ UNCHANGED <<_tags, _index, _contents, _dtype, _isvalid>>
             ELSE /\ ret' = None
                  /\ _tags' = out.tags
                  /\ _index' = out.index
                  /\ _contents' = out.contents
                  /\ _dtype' = out.dtype
                  /\ _isvalid' = out.isvalid

\* the arrays of one tag the caller holds before it calls the factory
InitFromtags ==
    \E tags \in TagsUpTo(1), index \in IndexFromTo(1, 1), contents \in ContentsInputs :
        ByInit(tags, index, contents)

SpecFromtags == InitFromtags /\ [][FromTags]_vars

(***************************************************************************)
(* numpy.add(self, other): self is an array of up to MaxLen tags over      *)
(* branches of 1 or 2 items, other an array over two branches of           *)
(* MaxLen + 1 items, of as many tags as self or of one tag.                *)
(***************************************************************************)
\* branch number tag of the other operand: MaxLen + 1 items
OtherBranch(tag) ==
    [kind |-> "ndarray", dtype |-> "int64",
     data |-> [j \in 1..(MaxLen + 1) |-> 100 * (tag + 1) + j - 1], cols |-> << >>]

OtherContents == <<OtherBranch(0), OtherBranch(1)>>

\* the other operands of n tags, n in N: built by fromtags, or by __init__ with
\* the places of each branch taken downwards from its last item
OtherInputs(N) ==
    {u \in {fromtags(tags, OtherContents) : tags \in TagsUpTo(MaxLen)}
             \cup {__init__(tags, list([k \in DOMAIN tags.data |-> MaxLen - k + 1]),
                            OtherContents) : tags \in TagsUpTo(MaxLen)} :
        u.kind = "UnionArray" /\ Len(u.tags.data) \in N}

UfuncContents ==
    {<<Branch(0, 2)>>, <<Branch(0, 1), Branch(1, 2)>>, <<Branch(0, 2), Branch(1, 2)>>}

InitUfunc ==
    \E tags \in TagsUpTo(MaxLen), contents \in UfuncContents :
        \E index \in IndexFromTo(Len(tags.data), Len(tags.data) + 1) :
            ByInit(tags, index, contents)

Ufunc ==
    /\ call.op = "__init__"
    /\ \E other \in OtherInputs({Len(_tags.data), 1}) :
          LET v == __array_ufunc__(self, other) IN
          /\ call' = [op |-> "__array_ufunc__", args |-> <<"add", "__call__", other>>]
          /\ ret' = v.ret
          /\ _isvalid' = v.isvalid
          /\ UNCHANGED <<_tags, _index, _contents, _dtype>>

SpecUfunc == InitUfunc /\ [][Ufunc]_vars

(***************************************************************************)
(* Field reads and writes on arrays over Table branches: up to three       *)
(* tables with a column "x", the last one with a column "y" as well.       *)
(***************************************************************************)
Table(tag, n) ==
    [kind |-> "Table", dtype |-> "object", data |-> arange(n),
     cols |-> IF tag = 2
              THEN [x |-> [j \in 1..n |-> 10 * (tag + 1) + j - 1],
                    y |-> [j \in 1..n |-> 50 * (tag + 1) + j - 1]]
              ELSE [x |-> [j \in 1..n |-> 10 * (tag + 1) + j - 1]]]

TableContents ==
    {[t \in 1..k |-> Table(t - 1, 2)] : k \in 1..3}
        \cup {<<Table(0, 1), Table(1, 2), Table(2, 1)>>}

FieldNames == {[kind |-> "str", name |-> "x"], [kind |-> "str", name |-> "y"]}

\* the right-hand sides of a write: n + extra recognisable values
What(n, extra) == ndarray("int64", [i \in 1..(n + extra) |-> 500 + i - 1])

InitTable ==
    \E tags \in {list(d) : d \in SeqsUpTo({0, 1, 2}, MaxLen)}, contents \in TableContents :
        \E index \in IndexFromTo(Len(tags.data), Len(tags.data) + 1) :
            ByInit(tags, index, contents)

GetField ==
    /\ call.op = "__init__"
    /\ \E where \in FieldNames :
          Read("__getitem__", <<where>>, __getitem__(self, where))

SetField ==
    /\ call.op = "__init__"
    /\ \E where \in FieldNames \cup {[kind |-> "int", i |-> 0]}, extra \in {0, 1} :
          LET what == What(Len(_tags.data), extra)
              r == __setitem__(self, where, what)
          IN  /\ call' = [op |-> "__setitem__", args |-> <<where, what>>]
              /\ ret' = r.ret
              /\ _contents' = r.contents
              /\ UNCHANGED <<_tags, _index, _dtype, _isvalid>>

SpecTable == InitTable /\ [][GetField \/ SetField]_vars

(***************************************************************************)
(* The dtype property on arrays whose branches have every pairing of       *)
(* element types.                                                          *)
(***************************************************************************)
DTypes ==
    {"bool", "object"} \cup integer \cup floating \cup complexfloating

TypedBranch(d) == [kind |-> "ndarray", dtype |-> d, data |-> <<0>>, cols |-> << >>]

InitDtype ==
    \E types \in SeqsUpTo(DTypes, 3) :
        ByInit(list(<<0>>), list(<<0>>), [t \in DOMAIN types |-> TypedBranch(types[t])])

GetDtype ==
    LET d == dtype(self) IN
    /\ call' = [op |-> "dtype", args |-> << >>]
    /\ ret' = d.ret
    /\ _dtype' = d.dtype
    /\ UNCHANGED <<_tags, _index, _contents, _isvalid>>

SpecDtype == InitDtype /\ [][GetDtype]_vars

(***************************************************************************)
(* The life of an instance: construction by __init__ or fromtags, then the *)
(* setters, _valid, the dtype property, copy and deepcopy in any order.    *)
(* copy and deepcopy make a new instance and leave self as it was, and a   *)
(* setter binds a field of its own instance only, so the instances do not  *)
(* act on one another; the variables follow one of them, which after a     *)
(* copy is the copy.                                                       *)
(***************************************************************************)
\* the keyword arguments of copy and deepcopy: none, one override, or all three
CopyInputs ==
    {<< >>}
        \cup {[tags |-> t] : t \in TagsUpTo(MaxLen - 2)}
        \cup {[index |-> i] : i \in IndexFromTo(0, MaxLen - 2)}
        \cup {[contents |-> c] : c \in ContentsInputs}
        \cup {[tags |-> list(<<t>>), index |-> list(<<i>>), contents |-> <<Branch(0, 1)>>] :
                t \in TagValues, i \in IndexValues}

InitCache ==
    \/ \E tags \in TagsInputs, index \in IndexInputs, contents \in ContentsInputs :
          ByInit(tags, index, contents)
    \/ \E tags \in TagsInputs, contents \in ContentsInputs :
          ByFromtags(tags, contents)

\* the instance followed after out = self.copy(...) or self.deepcopy(...): out,
\* or self when the call raised
Followed(out) == IF Raised(out) THEN self ELSE out

Copy ==
    \E kw \in CopyInputs : \E out \in {copy(self, kw)} :
        /\ call' = [op |-> "copy", args |-> <<kw>>]
        /\ ret' = out
        /\ _tags' = Followed(out).tags
        /\ _index' = Followed(out).index
        /\ _contents' = Followed(out).contents
        /\ _dtype' = Followed(out).dtype
        /\ _isvalid' = Followed(out).isvalid

DeepCopy ==
    \E kw \in CopyInputs : \E out \in {deepcopy(self, kw)} :
        /\ call' = [op |-> "deepcopy", args |-> <<kw>>]
        /\ ret' = out
        /\ _tags' = Followed(out).tags
        /\ _index' = Followed(out).index
        /\ _contents' = Followed(out).contents
        /\ _dtype' = Followed(out).dtype
        /\ _isvalid' = Followed(out).isvalid

NextCache ==
    SetTags \/ SetIndex \/ SetContents \/ Valid \/ GetDtype \/ Copy \/ DeepCopy

SpecCache == InitCache /\ [][NextCache]_vars

(***************************************************************************)
(* Notions the claims are stated with.                                     *)
(***************************************************************************)
\* the number of positions before i that carry the tag of position i
Rank(tagsdata, i) == Cardinality({j \in 1..(i - 1) : tagsdata[j] = tagsdata[i]})

\* sequential form: per tag, the places 0, 1, 2, ... in order of appearance
Sequential(u) ==
    \A i \in DOMAIN u.tags.data : u.index.data[i] = Rank(u.tags.data, i)

\* the logical elements of a structurally sound array
Elements(u) ==
    [i \in DOMAIN u.tags.data |->
        u.contents[u.tags.data[i] + 1].data[u.index.data[i] + 1]]

ReadOps == {"__iter__", "issequential", "__awkward_persist__", "__getitem__"}

(***************************************************************************)
(* C1.  For non-negative tags with max(tags) < len(contents), fromtags     *)
(* returns an array whose index has the shape of tags, holds at position i *)
(* the number of earlier positions with the same tag, and keeps no         *)
(* placeholder -1.                                                         *)
(***************************************************************************)
C1_Pre ==
    /\ call.op = "fromtags"
    /\ Len(call.args[1].data) > 0
    /\ \A k \in DOMAIN call.args[1].data :
          call.args[1].data[k] >= 0 /\ call.args[1].data[k] < Len(call.args[2])

C1_FromtagsIndexIsRank ==
    C1_Pre =>
        /\ ~Raised(ret)
        /\ _tags.data = call.args[1].data
        /\ DOMAIN _index.data = DOMAIN call.args[1].data
        /\ \A i \in DOMAIN _index.data :
              _index.data[i] = Rank(call.args[1].data, i) /\ _index.data[i] # -1

C1_Witness ==
    /\ C1_Pre
    /\ call.args[1].data = <<0, 1, 0, 1>>
    /\ _index.data = <<0, 0, 1, 1>>

(***************************************************************************)
(* C2.  On a structurally sound array, a positional selection of at least  *)
(* one position whose tags all equal t returns contents[t] at the selected *)
(* index values, in selection order, and no UnionArray; a scalar position  *)
(* i returns contents[tags[i]][index[i]]; an empty selection is answered   *)
(* by contents[0].                                                         *)
(***************************************************************************)
C2_Selected == Positions(call.args[1], Len(_tags.data))

C2_Pre ==
    /\ call.op = "__getitem__"
    /\ Structural(self)
    /\ ~Raised(C2_Selected)

C2_HomogeneousNarrowing ==
    C2_Pre =>
        LET pos == C2_Selected.value
            t == _tags.data[pos[1]]
        IN  IF call.args[1].kind = "int"
            THEN ret = [kind |-> "scalar",
                        value |-> _contents[t + 1].data[_index.data[pos[1]] + 1]]
            ELSE IF pos = << >>
            THEN ret.kind = "ndarray" /\ ret.dtype = _contents[1].dtype /\ ret.data = << >>
            ELSE IF \A k \in DOMAIN pos : _tags.data[pos[k]] = t
            THEN /\ ret.kind = "ndarray"
                 /\ ret.dtype = _contents[t + 1].dtype
                 /\ ret.data = [k \in DOMAIN pos |->
                                   _contents[t + 1].data[_index.data[pos[k]] + 1]]
            ELSE ret.kind = "UnionArray"

C2_Witness ==
    /\ C2_Pre
    /\ _tags.data = <<0, 1, 1>>
    /\ _index.data = <<0, 1, 0, 1>>
    /\ call.args[1] = [kind |-> "slice", start |-> 1, stop |-> 3, step |-> 1]
    /\ ret.kind = "ndarray"
    /\ ret.data = <<21, 20>>

(***************************************************************************)
(* C6.  Persistence of a structurally sound array emits the compact form   *)
(* exactly when the array is sequential and the general form otherwise,    *)
(* and replaying what it emits gives back the same logical elements.       *)
(***************************************************************************)
C6_PersistRoundTrip ==
    (call.op = "__awkward_persist__" /\ Structural(self)) =>
        /\ ret.kind = "persist"
        /\ (ret.call = <<"awkward", "UnionArray", "fromtags">>) <=> Sequential(self)
        /\ (ret.call = <<"awkward", "UnionArray">>) <=> ~Sequential(self)
        /\ replay(ret).kind = "UnionArray"
        /\ Elements(replay(ret)) = Elements(self)

(***************************************************************************)
(* C8.  With whole-array validation enabled, every read of an array that   *)
(* violates I1, I2 or I3 fails with the ValueError of _valid; a            *)
(* one-dimensional index shorter than tags is rejected by that error too.  *)
(***************************************************************************)
C8_InvalidReadRaisesValueError ==
    (check_whole_valid /\ call.op \in ReadOps \cup {"_valid"} /\ ~Structural(self)) =>
        ret = Raise("ValueError")

(***************************************************************************)
(* C10.  On every structurally sound array, an index longer than tags      *)
(* included, issequential returns whether the array is in sequential form, *)
(* and never raises.                                                       *)
(***************************************************************************)
C10_IsSequentialIffSequential ==
    (call.op = "issequential" /\ Structural(self)) =>
        ret = [kind |-> "bool", value |-> Sequential(self)]

(***************************************************************************)
(* C9.  With property validation enabled, the tags setter rejects tags     *)
(* with a negative value by a ValueError instead of storing them wrapped   *)
(* into the unsigned tag type, and stores non-negative tags unchanged in   *)
(* value, in the smallest unsigned width that holds their maximum.         *)
(***************************************************************************)
SmallestUnsigned(m) ==
    IF m <= 255 THEN "uint8" ELSE IF m <= 65535 THEN "uint16" ELSE "uint32"

C9_NegativeTagsRejected ==
    (check_prop_valid /\ call.op = "tags.setter") =>
        LET value == call.args[1].data IN
        IF \E k \in DOMAIN value : value[k] < 0
        THEN ret = Raise("ValueError")
        ELSE ret = None =>
                /\ _tags.data = value
                /\ _tags.dtype = SmallestUnsigned(ArrayMax(value))
                /\ ~_isvalid

(***************************************************************************)
(* C3.  For two structurally sound operands A and B with tags of one       *)
(* shape, __array_ufunc__ forms one group per pair of tags that occurs     *)
(* (at most k1*k2 groups), and returns an array R in sequential form that  *)
(* satisfies I1-I3 and holds at every position p the operation applied to  *)
(* the elements of A and B at p.                                           *)
(***************************************************************************)
DistinctTags(u) == Cardinality(Range(u.tags.data))

C3_Pre ==
    /\ call.op = "__array_ufunc__"
    /\ Structural(self)
    /\ Structural(call.args[3])
    /\ Len(call.args[3].tags.data) = Len(_tags.data)

C3_DispatchGrouping ==
    C3_Pre =>
        LET B == call.args[3]
            groups == {<<_tags.data[p], B.tags.data[p]>> : p \in DOMAIN _tags.data}
        IN  /\ ret.kind = "UnionArray"
            /\ Len(ret.contents) = Cardinality(groups)
            /\ Len(ret.contents) <= DistinctTags(self) * DistinctTags(B)
            /\ DOMAIN ret.tags.data = DOMAIN _tags.data
            /\ Structural(ret)
            /\ Sequential(ret)
            /\ \A p \in DOMAIN _tags.data :
                  Elements(ret)[p] = Elements(self)[p] + Elements(B)[p]

C3_Witness ==
    /\ C3_Pre
    /\ _tags.data = <<1, 0, 1>>
    /\ _index.data = <<1, 0, 0, 1>>
    /\ call.args[3].tags.data = <<0, 0, 1>>
    /\ call.args[3].index.data = <<3, 2, 1>>
    /\ ret.kind = "UnionArray"
    /\ ret.tags.data = <<1, 0, 2>>
    /\ Elements(ret) = <<124, 112, 221>>

(***************************************************************************)
(* C4.  The field write u[name] = what, with what of the shape of tags,    *)
(* on a structurally sound array whose positions have slots of their own,  *)
(* leaves what[i] in field name of contents[tags[i]] at place index[i],    *)
(* for every position i.                                                   *)
(***************************************************************************)
OwnSlots(u) ==
    \A i, j \in DOMAIN u.tags.data :
        (i # j /\ u.tags.data[i] = u.tags.data[j]) => u.index.data[i] # u.index.data[j]

C4_FieldWriteByPosition ==
    (/\ call.op = "__setitem__"
     /\ call.args[1].kind = "str"
     /\ Len(call.args[2].data) = Len(_tags.data)
     /\ Structural(self)
     /\ OwnSlots(self)) =>
        /\ ret = None
        /\ \A i \in DOMAIN _tags.data :
              LET branch == _contents[_tags.data[i] + 1] IN
              /\ call.args[1].name \in DOMAIN branch.cols
              /\ _index.data[i] + 1 \in DOMAIN branch.cols[call.args[1].name]
              /\ branch.cols[call.args[1].name][_index.data[i] + 1] = call.args[2].data[i]

(***************************************************************************)
(* C5.  The field read u[name] of a structurally sound array, even one     *)
(* whose tags use only some of the branches, returns a UnionArray that     *)
(* satisfies I1-I3 and holds at every position i the field of u's element  *)
(* at i.                                                                   *)
(***************************************************************************)
C5_FieldReadPreservesStructure ==
    (/\ call.op = "__getitem__"
     /\ call.args[1].kind = "str"
     /\ Structural(self)
     /\ \A i \in DOMAIN _tags.data :
           call.args[1].name \in DOMAIN _contents[_tags.data[i] + 1].cols) =>
        /\ ret.kind = "UnionArray"
        /\ Structural(ret)
        /\ \A i \in DOMAIN _tags.data :
              Elements(ret)[i]
                  = _contents[_tags.data[i] + 1].cols[call.args[1].name][_index.data[i] + 1]

(***************************************************************************)
(* C7.  uniondtype depends on the set of branch element types only and     *)
(* follows the lattice: {int8} -> int8, {int8, uint8} -> int16,            *)
(* {float32, float64} -> float64, {int32, float32} -> float64,             *)
(* {complex64, float64} -> complex128, an opaque branch -> object, and a   *)
(* boolean branch among integer branches -> an integer type at least as    *)
(* wide as each of them.                                                   *)
(***************************************************************************)
Width(d) ==
    CASE d \in {"int8", "uint8"} -> 8
      [] d \in {"int16", "uint16"} -> 16
      [] d \in {"int32", "uint32"} -> 32
      [] d \in {"int64", "uint64"} -> 64

BranchTypes(contents) == {contents[t].dtype : t \in DOMAIN contents}

C7_PromotionLattice ==
    call.op = "dtype" =>
        LET types == BranchTypes(_contents)
            d == ret.value
        IN  /\ \A other \in SeqsUpTo(types, 3) :
                  Range(other) = types
                      => uniondtype([t \in DOMAIN other |-> TypedBranch(other[t])]) = d
            /\ types = {"int8"} => d = "int8"
            /\ types = {"int8", "uint8"} => d = "int16"
            /\ types = {"float32", "float64"} => d = "float64"
            /\ types = {"int32", "float32"} => d = "float64"
            /\ types = {"complex64", "float64"} => d = "complex128"
            /\ "object" \in types => d = "object"
            /\ ("bool" \in types /\ types # {"bool"} /\ types \subseteq integer \cup {"bool"})
                  => /\ d \in integer
                     /\ \A t \in types \ {"bool"} : Width(d) >= Width(t)

(***************************************************************************)
(* C11.  Cache soundness over any sequence of constructions, setters,      *)
(* copies, deep copies, _valid calls and dtype reads: whenever the flag    *)
(* _isvalid is true the fields satisfy I1-I3; the cached type _dtype is    *)
(* unset or uniondtype of the contents; a setter that returns has cleared  *)
(* the flag, the contents setter the cached type too; a _valid call that   *)
(* raises leaves the flag false; and a _valid call made with the flag true *)
(* runs no checks: it returns None and the flag stays.                     *)
(***************************************************************************)
C11_Sound ==
    /\ _isvalid => Structural(self)
    /\ _dtype # "None" => _dtype = uniondtype(_contents)
    /\ (call.op \in {"tags.setter", "index.setter", "contents.setter"} /\ ret = None)
          => ~_isvalid
    /\ (call.op = "contents.setter" /\ ret = None) => _dtype = "None"
    /\ (call.op = "_valid" /\ Raised(ret)) => ~_isvalid

C11_ValidMemoized ==
    (_isvalid /\ call'.op = "_valid") => (ret' = None /\ _isvalid')

C11_CacheSoundness == []C11_Sound /\ [][C11_ValidMemoized]_vars

\* an instance that was validated and whose type was read is deep-copied
\* without overrides: the copy carries the flag and the cached type
C11_Witness ==
    /\ call.op = "deepcopy"
    /\ DOMAIN call.args[1] = {}
    /\ ret.kind = "UnionArray"
    /\ _isvalid
    /\ _dtype = "float64"
    /\ Len(_tags.data) < Len(_index.data)

====
